---- MODULE Spec2Model ----
(***************************************************************************)
(* Model of the two batch jobs of the repository:                          *)
(*   Airplanes_ingest_flight_snapshots.py  (authenticate, fetch, filter,   *)
(*                                          persist)                       *)
(*   Airplanes_compute_flight_snapshots.py (great-circle distance pass)    *)
(*                                                                         *)
(* Python values are modelled as follows.  Text and JSON numbers that the  *)
(* ingestion job only moves around (it never computes with them) are       *)
(* strings; None / SQL NULL is the string None.  Python list indices are   *)
(* 0-based: Campo(avion, k) is avion[k].  A store is a committed copy      *)
(* (db, tv) and the working copy of the open connection (tx, tvTx); only   *)
(* commit() copies the working copy into the committed one, and a process  *)
(* that dies without commit() loses the working copy (SQLite rolls the     *)
(* open transaction back).                                                 *)
(***************************************************************************)
EXTENDS Integers, Sequences, FiniteSets, TLC

VARIABLES
    pc,                 \* position of the running job in main()
    argc,               \* len(sys.argv) of the running job
    runs,               \* number of jobs started so far
    red,                \* outbound calls of this run: how many, and how each ended
    conexion,           \* [abierta, connects, closes, escrituras] of this run
    out,                \* lines printed by this run
    excepcion,          \* the unhandled exception that ended this run, or Ninguna
    todos_los_aviones,  \* what llamar_al_endpoint returned
    idx,                \* loop position (1-based) of the for loop
    tiempo_de_captura,  \* int(time.time()) taken by llenar_tabla_en_sqlite
    db,                 \* committed Avion_fisico / Snapshots / sqlite_sequence
    tx,                 \* the same as seen through the open connection
    tv,                 \* committed Trayectorias_validas
    tvTx,               \* Trayectorias_validas as seen through the open connection
    lista_por_avion     \* the rows fetchall() returned to the distance pass

vars == <<pc, argc, runs, red, conexion, out, excepcion, todos_los_aviones, idx,
          tiempo_de_captura, db, tx, tv, tvTx, lista_por_avion>>

(***************************************************************************)
(* Bounds of the model.                                                    *)
(***************************************************************************)
MaxRuns == 2
MaxStates == 2
MaxFilas == 2

None == "None"
Ninguna == "-"

Campo(avion, k) == avion[k + 1]

Terminal == {"done", "exited", "crashed"}

(***************************************************************************)
(* The store.  Avion_fisico and Snapshots are lists of rows in insertion   *)
(* order; seq is sqlite_sequence, the AUTOINCREMENT counter of each table. *)
(***************************************************************************)
StoreVacio ==
    [tablas |-> FALSE,
     Avion_fisico |-> <<>>,
     Snapshots |-> <<>>,
     seq |-> [Avion_fisico |-> 0, Snapshots |-> 0]]

ConexionCerrada == [abierta |-> FALSE, connects |-> 0, closes |-> 0, escrituras |-> 0]

RedSinUso == [token_n |-> 0, token_r |-> Ninguna, fetch_n |-> 0, fetch_r |-> Ninguna]

SinRespuesta == [tipo |-> "unset", claves |-> {}, states |-> <<>>]

(***************************************************************************)
(* The state vectors the fetch can deliver.  A record is the positional    *)
(* list [icao, call_sign, country, time_position, last_contact, longitude, *)
(* latitude, altitude, ...]; the upstream may also deliver a record with   *)
(* a different case of the country, a null icao, or fewer positions.       *)
(***************************************************************************)
AvionA == <<"a", "AMX1", "Mexico", "1700000000", "1700000001", "-99.1", "19.4", "10000.0">>
AvionB == <<"b", "VOI2", "Mexico", None, "1700000002", None, None, None>>
AvionX == <<"x", "IBE3", "mexico", "1700000003", "1700000003", "-3.7", "40.4", "500.0">>
AvionCorto == <<"d", "VIV4", "Mexico">>
AvionSinIcao == <<None, "SLI5", "Mexico", "1700000005", "1700000005", "-100.0", "25.0", "0.0">>

Aviones == {AvionA, AvionB, AvionX, AvionCorto, AvionSinIcao}

ListasHasta(n) == UNION {[1..k -> Aviones] : k \in 0..n}

Respuestas ==
    {[tipo |-> "dict", claves |-> {"time", "states"}, states |-> l] : l \in ListasHasta(MaxStates)}
    \cup {[tipo |-> "dict", claves |-> {"time"}, states |-> <<>>],
          [tipo |-> "dict", claves |-> {}, states |-> <<>>]}

RespuestaNone == [tipo |-> "None", claves |-> {}, states |-> <<>>]

(***************************************************************************)
(* SQL statements of llenar_tabla_en_sqlite, as functions of the working   *)
(* copy t.                                                                 *)
(***************************************************************************)
\* The id AUTOINCREMENT gives the next row of tabla.
SiguienteId(t, tabla) == t.seq[tabla] + 1

\* UNIQUE(icao): a row conflicts when an existing row has the same non-NULL icao.
ConflictoIcao(t, icao) ==
    icao # None /\ \E i \in 1..Len(t.Avion_fisico) : t.Avion_fisico[i].icao = icao

\* Variant: the icao column is not UNIQUE, so nothing is ever ignored.
InsertOrIgnoreAvion_SinUnique(t, icao, call_sign, pais_origen) ==
    LET id == SiguienteId(t, "Avion_fisico")
        fila == [id |-> id, icao |-> icao, call_sign |-> call_sign,
                 pais_origen |-> pais_origen]
    IN  [t EXCEPT !.seq["Avion_fisico"] = id, !.Avion_fisico = Append(@, fila)]

\* INSERT OR IGNORE INTO Avion_fisico (icao, call_sign, pais_origen).  The
\* rowid is allocated, and sqlite_sequence advanced, before the conflict is
\* detected, so an ignored insert still consumes an id.
InsertOrIgnoreAvion(t, icao, call_sign, pais_origen) ==
    LET id == SiguienteId(t, "Avion_fisico")
        fila == [id |-> id, icao |-> icao, call_sign |-> call_sign,
                 pais_origen |-> pais_origen]
    IN  [t EXCEPT !.seq["Avion_fisico"] = id,
                  !.Avion_fisico = IF ConflictoIcao(t, icao) THEN @ ELSE Append(@, fila)]

\* SELECT id FROM Avion_fisico WHERE icao = ?  (icao = NULL matches no row),
\* then fetchone(): the first matching row's id as <<id>>, or <<>> for None.
SelectIdFetchone(t, icao) ==
    LET hits == {i \in 1..Len(t.Avion_fisico) :
                    icao # None /\ t.Avion_fisico[i].icao = icao}
    IN  IF hits = {} THEN <<>>
        ELSE <<t.Avion_fisico[CHOOSE i \in hits : \A j \in hits : i <= j].id>>

\* Variant: a snapshot is skipped when the aircraft already has one with the
\* same posicion_temporal (deduplication against earlier rows).
InsertSnapshot_SinRepetir(t, Avion_fisico_id, posicion_temporal, tiempo, longitud, latitud, altitud) ==
    LET id == SiguienteId(t, "Snapshots")
        fila == [id |-> id, Avion_fisico_id |-> Avion_fisico_id,
                 posicion_temporal |-> posicion_temporal,
                 tiempo_de_captura |-> tiempo,
                 longitud |-> longitud, latitud |-> latitud, altitud |-> altitud]
    IN  IF \E i \in 1..Len(t.Snapshots) :
              /\ t.Snapshots[i].Avion_fisico_id = Avion_fisico_id
              /\ t.Snapshots[i].posicion_temporal = posicion_temporal
        THEN t
        ELSE [t EXCEPT !.seq["Snapshots"] = id, !.Snapshots = Append(@, fila)]

\* INSERT INTO Snapshots (Avion_fisico_id, posicion_temporal, tiempo_de_captura,
\*                        longitud, latitud, altitud)
InsertSnapshot(t, Avion_fisico_id, posicion_temporal, tiempo, longitud, latitud, altitud) ==
    LET id == SiguienteId(t, "Snapshots")
        fila == [id |-> id, Avion_fisico_id |-> Avion_fisico_id,
                 posicion_temporal |-> posicion_temporal,
                 tiempo_de_captura |-> tiempo,
                 longitud |-> longitud, latitud |-> latitud, altitud |-> altitud]
    IN  [t EXCEPT !.seq["Snapshots"] = id, !.Snapshots = Append(@, fila)]

\* Variant: the country is compared without regard to case.
Retenido_SinDistinguirMayusculas(avion) == Campo(avion, 2) \in {"Mexico", "mexico", "MEXICO"}

\* if avion[2] != "Mexico": continue
Retenido(avion) == Campo(avion, 2) = "Mexico"

\* One iteration of the for loop over diccionario["states"]: the working copy
\* after it, how many statements wrote, and the exception it raised if any.
\* avion[2] needs 3 positions, avion[7] needs 8 (IndexError otherwise);
\* fetchone()[0] on no row is a TypeError, raised after the INSERT OR IGNORE.
Iteracion(t, avion, tiempo) ==
    IF Len(avion) < 3 THEN [t |-> t, n |-> 0, exc |-> "IndexError"]
    ELSE IF ~Retenido(avion) THEN [t |-> t, n |-> 0, exc |-> Ninguna]
    ELSE IF Len(avion) < 8 THEN [t |-> t, n |-> 0, exc |-> "IndexError"]
    ELSE
        LET icao == Campo(avion, 0)
            t1 == InsertOrIgnoreAvion(t, icao, Campo(avion, 1), Campo(avion, 2))
            fo == SelectIdFetchone(t1, icao)
        IN  IF fo = <<>> THEN [t |-> t1, n |-> 1, exc |-> "TypeError"]
            ELSE [t |-> InsertSnapshot(t1, fo[1], Campo(avion, 3), tiempo,
                                       Campo(avion, 5), Campo(avion, 6), Campo(avion, 7)),
                  n |-> 2, exc |-> Ninguna]

(***************************************************************************)
(* Airplanes_ingest_flight_snapshots.py: main() and what it calls.         *)
(***************************************************************************)
Argcs == {1, 2, 3}

Init ==
    /\ pc = "idle"
    /\ argc = 2
    /\ runs = 0
    /\ red = RedSinUso
    /\ conexion = ConexionCerrada
    /\ out = <<>>
    /\ excepcion = Ninguna
    /\ todos_los_aviones = SinRespuesta
    /\ idx = 0
    /\ tiempo_de_captura = 0
    /\ db = StoreVacio
    /\ tx = StoreVacio
    /\ tv = <<>>
    /\ tvTx = <<>>
    /\ lista_por_avion = <<>>

\* A new process: fresh locals, no connection, nothing pending in the store.
NuevoProceso(a) ==
    /\ runs < MaxRuns
    /\ pc \in {"idle"} \cup Terminal
    /\ argc' = a
    /\ runs' = runs + 1
    /\ red' = RedSinUso
    /\ conexion' = ConexionCerrada
    /\ out' = <<>>
    /\ excepcion' = Ninguna
    /\ todos_los_aviones' = SinRespuesta
    /\ idx' = 0
    /\ tiempo_de_captura' = 0
    /\ tx' = db
    /\ tvTx' = tv
    /\ lista_por_avion' = <<>>
    /\ UNCHANGED <<db, tv>>

\* python Airplanes_ingest_flight_snapshots.py ...
Start == \E a \in Argcs : NuevoProceso(a) /\ pc' = "credenciales"

\* exit(): the process ends, nothing else runs.
Exit(mensajes) ==
    /\ pc' = "exited"
    /\ out' = out \o mensajes

\* An exception nobody catches: traceback, the process ends where it is.
Crash(exc) ==
    /\ pc' = "crashed"
    /\ excepcion' = exc

\* obtener_credenciales_de_json() and the check of its result.
ObtenerCredenciales ==
    /\ pc = "credenciales"
    /\ \E r \in {"ok", "FileNotFoundError", "vacias", "KeyError"} :
        CASE r = "ok" -> pc' = "token" /\ UNCHANGED <<out, excepcion>>
          [] r = "FileNotFoundError" ->
                Exit(<<"credentials.json no se encuentra">>) /\ UNCHANGED excepcion
          [] r = "vacias" -> Exit(<<>>) /\ UNCHANGED excepcion
          [] r = "KeyError" -> Crash("KeyError") /\ UNCHANGED out
    /\ UNCHANGED <<argc, runs, red, conexion, todos_los_aviones, idx,
                   tiempo_de_captura, db, tx, tv, tvTx, lista_por_avion>>

\* obtener_token(): one POST; Timeout and ConnectionError are caught and
\* give None, and main() exits on a falsy token.  A response without
\* "access_token" is a KeyError nobody catches.
ObtenerToken ==
    /\ pc = "token"
    /\ \E r \in {"ok", "Timeout", "ConnectionError", "KeyError"} :
        /\ red' = [red EXCEPT !.token_n = @ + 1, !.token_r = r]
        /\ CASE r = "ok" -> pc' = "fetch" /\ UNCHANGED <<out, excepcion>>
             [] r = "Timeout" ->
                   Exit(<<"obtener_token: la peticion tardo demasiado">>)
                   /\ UNCHANGED excepcion
             [] r = "ConnectionError" ->
                   Exit(<<"No fue posible conectarse a OpenSky Network">>)
                   /\ UNCHANGED excepcion
             [] r = "KeyError" -> Crash("KeyError") /\ UNCHANGED out
    /\ UNCHANGED <<argc, runs, conexion, todos_los_aviones, idx,
                   tiempo_de_captura, db, tx, tv, tvTx, lista_por_avion>>

\* llamar_al_endpoint(): one GET; only Timeout is caught (None is returned).
LlamarAlEndpoint ==
    /\ pc = "fetch"
    /\ \/ \E resp \in Respuestas :
            /\ red' = [red EXCEPT !.fetch_n = @ + 1, !.fetch_r = "ok"]
            /\ todos_los_aviones' = resp
            /\ pc' = "respuesta"
            /\ UNCHANGED <<out, excepcion>>
       \/ /\ red' = [red EXCEPT !.fetch_n = @ + 1, !.fetch_r = "Timeout"]
          /\ todos_los_aviones' = RespuestaNone
          /\ out' = Append(out, "llamar_al_endpoint: la peticion tardo demasiado")
          /\ pc' = "respuesta"
          /\ UNCHANGED excepcion
       \/ /\ red' = [red EXCEPT !.fetch_n = @ + 1, !.fetch_r = "ConnectionError"]
          /\ Crash("ConnectionError")
          /\ UNCHANGED <<out, todos_los_aviones>>
    /\ UNCHANGED <<argc, runs, conexion, idx, tiempo_de_captura, db, tx, tv, tvTx,
                   lista_por_avion>>

\* not todos_los_aviones: None and the empty dict are falsy.
Falsy(resp) == resp.tipo = "None" \/ resp.claves = {}

\* Variant: only the truth value of the response is tested.
RespuestaInvalida_SoloFalsy(resp) == Falsy(resp)

\* if not todos_los_aviones or "states" not in todos_los_aviones
RespuestaInvalida(resp) == Falsy(resp) \/ "states" \notin resp.claves

ValidarRespuesta ==
    /\ pc = "respuesta"
    /\ IF RespuestaInvalida(todos_los_aviones)
       THEN Exit(<<"No se pudo obtener informacion de vuelos.">>)
       ELSE pc' = "argumento" /\ UNCHANGED out
    /\ UNCHANGED <<argc, runs, red, conexion, excepcion, todos_los_aviones, idx,
                   tiempo_de_captura, db, tx, tv, tvTx, lista_por_avion>>

\* if len(sys.argv) != 2: usage, exit()
ValidarArgumento ==
    /\ pc = "argumento"
    /\ IF argc # 2
       THEN Exit(<<"El formato de tu ruta solo deberia ser: ... <path_to_sqlite_db>">>)
       ELSE pc' = "conectar" /\ out' = Append(out, "Estas usando la database")
    /\ UNCHANGED <<argc, runs, red, conexion, excepcion, todos_los_aviones, idx,
                   tiempo_de_captura, db, tx, tv, tvTx, lista_por_avion>>

\* conn_exp = sqlite3.connect(path); cur = conn_exp.cursor()
Conectar ==
    /\ pc = "conectar"
    /\ conexion' = [conexion EXCEPT !.abierta = TRUE, !.connects = @ + 1]
    /\ tx' = db
    /\ pc' = "crear"
    /\ UNCHANGED <<argc, runs, red, out, excepcion, todos_los_aviones, idx,
                   tiempo_de_captura, db, tv, tvTx, lista_por_avion>>

\* crear_tabla_principal(): CREATE TABLE IF NOT EXISTS, outside any
\* transaction, so the two empty tables exist from here on.
CrearTablaPrincipal ==
    /\ pc = "crear"
    /\ db' = [db EXCEPT !.tablas = TRUE]
    /\ tx' = [tx EXCEPT !.tablas = TRUE]
    /\ pc' = "llenar"
    /\ UNCHANGED <<argc, runs, red, conexion, out, excepcion, todos_los_aviones, idx,
                   tiempo_de_captura, tv, tvTx, lista_por_avion>>

\* int(time.time()): the runs are sequential, the clock does not go back.
Reloj == runs

\* llenar_tabla_en_sqlite(), lines 201-206: diccionario["states"] is a
\* KeyError without the key; a falsy "states" (the empty list, and null,
\* which is modelled as the empty list) returns at once; otherwise the
\* capture time is taken and the loop starts.
LlenarInicio ==
    /\ pc = "llenar"
    /\ IF "states" \notin todos_los_aviones.claves
       THEN /\ Crash("KeyError")
            /\ UNCHANGED <<out, idx, tiempo_de_captura>>
       ELSE IF todos_los_aviones.states = <<>>
       THEN /\ out' = Append(out, "Hay un error con el formato del archivo JSON")
            /\ pc' = "cerrar"
            /\ UNCHANGED <<idx, tiempo_de_captura, excepcion>>
       ELSE /\ tiempo_de_captura' = Reloj
            /\ idx' = 1
            /\ pc' = "bucle"
            /\ UNCHANGED <<out, excepcion>>
    /\ UNCHANGED <<argc, runs, red, conexion, todos_los_aviones,
                   db, tx, tv, tvTx, lista_por_avion>>

\* Variant: commit() inside the loop, after every record.
LlenarPaso_CommitPorFila ==
    /\ pc = "bucle"
    /\ idx <= Len(todos_los_aviones.states)
    /\ LET r == Iteracion(tx, todos_los_aviones.states[idx], tiempo_de_captura)
       IN  /\ tx' = r.t
           /\ db' = IF r.exc # Ninguna THEN db ELSE r.t
           /\ conexion' = [conexion EXCEPT !.escrituras = @ + r.n]
           /\ IF r.exc # Ninguna
              THEN Crash(r.exc) /\ UNCHANGED idx
              ELSE idx' = idx + 1 /\ UNCHANGED <<pc, excepcion>>
    /\ UNCHANGED <<argc, runs, red, out, todos_los_aviones, tiempo_de_captura,
                   tv, tvTx, lista_por_avion>>

\* One iteration of "for avion in diccionario['states']" (lines 208-230).
LlenarPaso ==
    /\ pc = "bucle"
    /\ idx <= Len(todos_los_aviones.states)
    /\ LET r == Iteracion(tx, todos_los_aviones.states[idx], tiempo_de_captura)
       IN  /\ tx' = r.t
           /\ conexion' = [conexion EXCEPT !.escrituras = @ + r.n]
           /\ IF r.exc # Ninguna
              THEN Crash(r.exc) /\ UNCHANGED idx
              ELSE idx' = idx + 1 /\ UNCHANGED <<pc, excepcion>>
    /\ UNCHANGED <<argc, runs, red, out, todos_los_aviones, tiempo_de_captura,
                   db, tv, tvTx, lista_por_avion>>

\* _conn_exp.commit() after the loop (line 232), and the success line.
Commit ==
    /\ pc = "bucle"
    /\ idx > Len(todos_los_aviones.states)
    /\ db' = tx
    /\ out' = Append(out, "Las tablas ha sido llenada con exito")
    /\ pc' = "cerrar"
    /\ UNCHANGED <<argc, runs, red, conexion, excepcion, todos_los_aviones, idx,
                   tiempo_de_captura, tx, tv, tvTx, lista_por_avion>>

\* conn_exp.close() (line 56)
Cerrar ==
    /\ pc = "cerrar"
    /\ conexion' = [conexion EXCEPT !.abierta = FALSE, !.closes = @ + 1]
    /\ pc' = "done"
    /\ UNCHANGED <<argc, runs, red, out, excepcion, todos_los_aviones, idx,
                   tiempo_de_captura, db, tx, tv, tvTx, lista_por_avion>>

Next ==
    \/ Start
    \/ ObtenerCredenciales
    \/ ObtenerToken
    \/ LlamarAlEndpoint
    \/ ValidarRespuesta
    \/ ValidarArgumento
    \/ Conectar
    \/ CrearTablaPrincipal
    \/ LlenarInicio
    \/ LlenarPaso
    \/ Commit
    \/ Cerrar

Spec == Init /\ [][Next]_vars

(***************************************************************************)
(* Airplanes_compute_flight_snapshots.py.                                  *)
(*                                                                         *)
(* A float is the pair <<hi, lo>> standing for (hi * 2^27 + lo) * 2^-53,   *)
(* which is exact for every double in [0.5, 2): 1.0 is <<67108864, 0>> and *)
(* the next double above it, 1.0000000000000002, is <<67108864, 2>>.       *)
(* Coordinates are the decimal texts of the stored degrees; distances are  *)
(* hundredths of a kilometre, <<d>>, with <<>> for NULL.                   *)
(***************************************************************************)
MexicoCity == [lat |-> "19.4326", lon |-> "-99.1332"]
NewYork == [lat |-> "40.7128", lon |-> "-74.0060"]
Coahuila == [lat |-> "29.8795", lon |-> "-104.1515"]
Jalisco == [lat |-> "20.5", lon |-> "-103.3"]
Desconocido == [lat |-> None, lon |-> None]

Puntos == {MexicoCity, NewYork, Coahuila, Jalisco}

Uno == <<67108864, 0>>

MayorQue(x, y) == x[1] > y[1] \/ (x[1] = y[1] /\ x[2] > y[2])

\* sin(lat_inicio) * sin(lat_fin) + cos(lat_inicio) * cos(lat_fin) * cos(lon_inicio - lon_fin)
\* on the radians of the four coordinates, in IEEE-754 double arithmetic.
ArgumentoArccos(lat_inicio, lon_inicio, lat_fin, lon_fin) ==
    LET a == [lat |-> lat_inicio, lon |-> lon_inicio]
        b == [lat |-> lat_fin, lon |-> lon_fin]
        par == {a, b}
    IN  CASE par = {MexicoCity} -> <<67108864, 0>>
          [] par = {NewYork} -> <<67108864, 0>>
          [] par = {Coahuila} -> <<67108864, 2>>
          [] par = {Jalisco} -> <<67108863, 134217727>>
          [] par = {MexicoCity, NewYork} -> <<57993630, 88108640>>
          [] par = {MexicoCity, Coahuila} -> <<65786084, 70395300>>
          [] par = {MexicoCity, Jalisco} -> <<66940531, 94261386>>
          [] par = {NewYork, Coahuila} -> <<59947630, 96150423>>
          [] par = {NewYork, Jalisco} -> <<56883023, 76187556>>
          [] par = {Coahuila, Jalisco} -> <<66205635, 81118209>>

\* math.acos raises ValueError ("math domain error") outside [-1, 1].
EnDominioDeAcos(x) == ~MayorQue(x, Uno) /\ x[1] >= 0

\* round(6371 * acos(x), 2), in hundredths of a kilometre.
DistanciaKm(x) ==
    CASE x = <<67108864, 0>> -> 0
      [] x = <<67108863, 134217727>> -> 0
      [] x = <<57993630, 88108640>> -> 335938
      [] x = <<65786084, 70395300>> -> 126705
      [] x = <<66940531, 94261386>> -> 45134
      [] x = <<59947630, 96150423>> -> 297007
      [] x = <<56883023, 76187556>> -> 356334
      [] x = <<66205635, 81118209>> -> 104645

\* UPDATE Trayectorias_validas SET distancia_inicio_a_fin_km = ? WHERE Avion_fisico_id = ?
UpdateDistancia(t, distancia_km, Avion_id_en_python) ==
    [i \in 1..Len(t) |->
        IF t[i].Avion_fisico_id = Avion_id_en_python
        THEN [t[i] EXCEPT !.distancia_inicio_a_fin_km = <<distancia_km>>]
        ELSE t[i]]

\* One iteration of "for avion in lista_por_avion" (lines 65-78): radians()
\* of None is a TypeError, acos() out of its domain a ValueError.
IteracionDistancia(t, avion) ==
    IF None \in {avion.lat_inicio, avion.lon_inicio, avion.lat_fin, avion.lon_fin}
    THEN [t |-> t, n |-> 0, exc |-> "TypeError"]
    ELSE LET x == ArgumentoArccos(avion.lat_inicio, avion.lon_inicio,
                                  avion.lat_fin, avion.lon_fin)
         IN  IF ~EnDominioDeAcos(x)
             THEN [t |-> t, n |-> 0, exc |-> "ValueError"]
             ELSE [t |-> UpdateDistancia(t, DistanciaKm(x), avion.Avion_fisico_id),
                   n |-> 1, exc |-> Ninguna]

\* Trayectorias_validas is produced outside these jobs: one row per aircraft
\* (keyed by Avion_fisico_id), the distance NULL until the pass has run.  A
\* start position may be unknown (a snapshot's longitud/latitud may be NULL).
FilaDeTrayectoria(id, inicio, fin) ==
    [Avion_fisico_id |-> id,
     lat_inicio |-> inicio.lat, lon_inicio |-> inicio.lon,
     lat_fin |-> fin.lat, lon_fin |-> fin.lon,
     distancia_inicio_a_fin_km |-> <<>>]

TrayectoriasHasta(n) ==
    UNION {{[i \in 1..k |-> FilaDeTrayectoria(i, f[i][1], f[i][2])] :
                f \in [1..k -> (Puntos \cup {Desconocido}) \X Puntos]} : k \in 0..n}

InitCompute ==
    /\ pc = "idle"
    /\ argc = 2
    /\ runs = 0
    /\ red = RedSinUso
    /\ conexion = ConexionCerrada
    /\ out = <<>>
    /\ excepcion = Ninguna
    /\ todos_los_aviones = SinRespuesta
    /\ idx = 0
    /\ tiempo_de_captura = 0
    /\ db = StoreVacio
    /\ tx = StoreVacio
    /\ tv \in TrayectoriasHasta(MaxFilas)
    /\ tvTx = tv
    /\ lista_por_avion = <<>>

\* python Airplanes_compute_flight_snapshots.py ...
StartCompute == \E a \in Argcs : NuevoProceso(a) /\ pc' = "c_argumento"

\* if len(sys.argv) != 2: usage, exit()  (the first statement of main())
ValidarArgumentoCompute ==
    /\ pc = "c_argumento"
    /\ IF argc # 2
       THEN Exit(<<"El formato de tu ruta solo deberia ser: ... <path_to_sqlite_db>">>)
       ELSE pc' = "c_conectar" /\ out' = Append(out, "Estas usando la database")
    /\ UNCHANGED <<argc, runs, red, conexion, excepcion, todos_los_aviones, idx,
                   tiempo_de_captura, db, tx, tv, tvTx, lista_por_avion>>

\* conn_retr = sqlite3.connect(path); cur_retr = conn_retr.cursor()
ConectarCompute ==
    /\ pc = "c_conectar"
    /\ conexion' = [conexion EXCEPT !.abierta = TRUE, !.connects = @ + 1]
    /\ tvTx' = tv
    /\ pc' = "c_select"
    /\ UNCHANGED <<argc, runs, red, out, excepcion, todos_los_aviones, idx,
                   tiempo_de_captura, db, tx, tv, lista_por_avion>>

\* execute(SELECT ...), fetchall(), and the empty-table return (lines 56-62).
Seleccionar ==
    /\ pc = "c_select"
    /\ lista_por_avion' = tvTx
    /\ IF tvTx = <<>>
       THEN /\ out' = Append(out, "La database esta vacia")
            /\ pc' = "c_cerrar"
            /\ UNCHANGED idx
       ELSE /\ idx' = 1
            /\ pc' = "c_bucle"
            /\ UNCHANGED out
    /\ UNCHANGED <<argc, runs, red, conexion, excepcion, todos_los_aviones,
                   tiempo_de_captura, db, tx, tv, tvTx>>

\* Variant: commit() inside the loop, after every row.
CalcularFila_CommitPorFila ==
    /\ pc = "c_bucle"
    /\ idx <= Len(lista_por_avion)
    /\ LET r == IteracionDistancia(tvTx, lista_por_avion[idx])
       IN  /\ tvTx' = r.t
           /\ tv' = IF r.exc # Ninguna THEN tv ELSE r.t
           /\ conexion' = [conexion EXCEPT !.escrituras = @ + r.n]
           /\ IF r.exc # Ninguna
              THEN Crash(r.exc) /\ UNCHANGED idx
              ELSE idx' = idx + 1 /\ UNCHANGED <<pc, excepcion>>
    /\ UNCHANGED <<argc, runs, red, out, todos_los_aviones, tiempo_de_captura,
                   db, tx, lista_por_avion>>

\* One iteration of "for avion in lista_por_avion", with its UPDATE.
CalcularFila ==
    /\ pc = "c_bucle"
    /\ idx <= Len(lista_por_avion)
    /\ LET r == IteracionDistancia(tvTx, lista_por_avion[idx])
       IN  /\ tvTx' = r.t
           /\ conexion' = [conexion EXCEPT !.escrituras = @ + r.n]
           /\ IF r.exc # Ninguna
              THEN Crash(r.exc) /\ UNCHANGED idx
              ELSE idx' = idx + 1 /\ UNCHANGED <<pc, excepcion>>
    /\ UNCHANGED <<argc, runs, red, out, todos_los_aviones, tiempo_de_captura,
                   db, tx, tv, lista_por_avion>>

\* _conn_retr.commit() after the loop (line 81), and the success line.
CommitCompute ==
    /\ pc = "c_bucle"
    /\ idx > Len(lista_por_avion)
    /\ tv' = tvTx
    /\ out' = Append(out, "Has agregado la columna con nuevos datos exitosamente")
    /\ pc' = "c_cerrar"
    /\ UNCHANGED <<argc, runs, red, conexion, excepcion, todos_los_aviones, idx,
                   tiempo_de_captura, db, tx, tvTx, lista_por_avion>>

\* conn_retr.close() (line 33)
CerrarCompute ==
    /\ pc = "c_cerrar"
    /\ conexion' = [conexion EXCEPT !.abierta = FALSE, !.closes = @ + 1]
    /\ pc' = "done"
    /\ UNCHANGED <<argc, runs, red, out, excepcion, todos_los_aviones, idx,
                   tiempo_de_captura, db, tx, tv, tvTx, lista_por_avion>>

NextCompute ==
    \/ StartCompute
    \/ ValidarArgumentoCompute
    \/ ConectarCompute
    \/ Seleccionar
    \/ CalcularFila
    \/ CommitCompute
    \/ CerrarCompute

SpecCompute == InitCompute /\ [][NextCompute]_vars

(***************************************************************************)
(* Properties.                                                             *)
(***************************************************************************)
EsDeMexico(avion) == avion[3] = "Mexico"

\* The records of a fetched list that the nationality filter is to retain.
Filtrados(lista) == SelectSeq(lista, EsDeMexico)

\* The step that completes an ingestion run: commit() of llenar_tabla_en_sqlite.
CompletaIngestion == pc = "bucle" /\ pc' = "cerrar"

\* The step that completes a distance pass: commit() of calcular_distancias_trayectorias.
CompletaPasada == pc = "c_bucle" /\ pc' = "c_cerrar"

FilasDe(d, icao) == {i \in 1..Len(d.Avion_fisico) : d.Avion_fisico[i].icao = icao}

SnapshotsDe(d, id) == {i \in 1..Len(d.Snapshots) : d.Snapshots[i].Avion_fisico_id = id}

\* C1: after any sequence of ingestion runs the committed Avion_fisico holds
\* exactly one row for every icao retained by a run that completed (no two
\* rows share an icao or an id), and a row, once committed, keeps its id and
\* icao for ever: the id is the one assigned at the first sighting.
C1_IdentidadUnica ==
    /\ [](\A i, j \in 1..Len(db.Avion_fisico) :
            (db.Avion_fisico[i].icao = db.Avion_fisico[j].icao
             \/ db.Avion_fisico[i].id = db.Avion_fisico[j].id) => i = j)
    /\ [][/\ Len(db'.Avion_fisico) >= Len(db.Avion_fisico)
          /\ \A i \in 1..Len(db.Avion_fisico) : db'.Avion_fisico[i] = db.Avion_fisico[i]]_vars
    /\ [][CompletaIngestion =>
            \A k \in 1..Len(todos_los_aviones.states) :
                EsDeMexico(todos_los_aviones.states[k]) =>
                    Cardinality(FilasDe(db', todos_los_aviones.states[k][1])) = 1]_vars

\* C1 witness: the icao "a" was retained by two completed runs (its snapshots
\* carry two capture times) and has a single identity row.
C1_Witness ==
    /\ pc = "done"
    /\ \E i \in FilasDe(db, "a") :
        \E m, n \in SnapshotsDe(db, db.Avion_fisico[i].id) :
            db.Snapshots[m].tiempo_de_captura # db.Snapshots[n].tiempo_de_captura

\* C2: every completed ingestion run appends exactly one snapshot row per
\* retained record (so N runs retaining M records each leave N x M rows), the
\* committed Snapshots change at no other step, and no existing row is ever
\* updated or deleted.
C2_AcumulacionDeSnapshots ==
    /\ [][CompletaIngestion =>
            Len(db'.Snapshots) =
                Len(db.Snapshots) + Len(Filtrados(todos_los_aviones.states))]_vars
    /\ [][db'.Snapshots # db.Snapshots => CompletaIngestion]_vars
    /\ [][/\ Len(db'.Snapshots) >= Len(db.Snapshots)
          /\ \A i \in 1..Len(db.Snapshots) : db'.Snapshots[i] = db.Snapshots[i]]_vars

\* C2 witness: two completed runs that retained two records each left 2 x 2 rows.
C2_Witness ==
    /\ pc = "done"
    /\ runs = 2
    /\ Len(db.Snapshots) = 4
    /\ db.Snapshots[2].tiempo_de_captura = 1
    /\ db.Snapshots[3].tiempo_de_captura = 2
    /\ Len(Filtrados(todos_los_aviones.states)) = 2

\* C3: a completed ingestion run persists a record of the fetched list if and
\* only if its country (position 2) is exactly the target nation: the rows it
\* appends to Snapshots are, in the order of the list, the retained records,
\* each carrying positions 3, 5, 6, 7 unchanged and referring to the identity
\* row of the record's icao.
C3_FiltroCorrecto ==
    [][CompletaIngestion =>
        LET esperados == Filtrados(todos_los_aviones.states)
            n0 == Len(db.Snapshots)
        IN  /\ Len(db'.Snapshots) = n0 + Len(esperados)
            /\ \A k \in 1..Len(esperados) :
                LET s == db'.Snapshots[n0 + k]
                    a == esperados[k]
                IN  /\ s.posicion_temporal = a[4]
                    /\ s.longitud = a[6]
                    /\ s.latitud = a[7]
                    /\ s.altitud = a[8]
                    /\ \E i \in FilasDe(db', a[1]) :
                        db'.Avion_fisico[i].id = s.Avion_fisico_id]_vars

\* C3 witness: a run over a list holding a record of another country (spelt
\* "mexico") and a retained one has completed and persisted only the latter.
C3_Witness ==
    /\ pc = "done"
    /\ runs = 1
    /\ todos_los_aviones.states = <<AvionX, AvionB>>
    /\ Len(db.Snapshots) = 1
    /\ db.Snapshots[1].longitud = None

\* C4: an ingestion run is all-or-nothing: the committed rows and counters
\* change only at the commit after the last record, a run that has committed
\* can only close, and the step at which a run fails changes nothing
\* committed, so a failed run leaves the store as it was before its inserts.
C4_TodoONada ==
    /\ [][<<db'.Avion_fisico, db'.Snapshots, db'.seq>> # <<db.Avion_fisico, db.Snapshots, db.seq>>
            => (CompletaIngestion /\ idx > Len(todos_los_aviones.states))]_vars
    /\ [][pc' = "crashed" => (db' = db /\ pc # "cerrar")]_vars
    /\ [][pc = "cerrar" => pc' = "done"]_vars

\* C4 witness: a run failed on a too short retained record after it had
\* written rows for an earlier record, and those rows are not committed.
C4_Witness ==
    /\ pc = "crashed"
    /\ excepcion = "IndexError"
    /\ idx = 2
    /\ Len(tx.Snapshots) > Len(db.Snapshots)
    /\ Len(tx.Avion_fisico) > Len(db.Avion_fisico)

\* C5: once main() has looked at a fetch result that is None or lacks the
\* "states" key, the run has ended by exit(): no connection was opened, no
\* statement was executed, nothing is pending and no exception was raised.
C5_RespuestaSinStates ==
    (/\ todos_los_aviones.tipo # "unset"
     /\ pc # "respuesta"
     /\ (todos_los_aviones.tipo = "None" \/ "states" \notin todos_los_aviones.claves))
    => (/\ pc = "exited"
        /\ conexion = ConexionCerrada
        /\ excepcion = Ninguna
        /\ tx = db)

\* C5 witness: a non-empty response without "states" ended the run.
C5_Witness ==
    /\ pc = "exited"
    /\ todos_los_aviones.tipo = "dict"
    /\ todos_los_aviones.claves = {"time"}

ErroresDeTransporte == {"Timeout", "ConnectionError"}

\* C6: a transport error (timeout or connection failure) on the token exchange
\* or on the state fetch is reported and ends the run by exit() with no
\* connection opened and no statement executed; each call is made at most
\* once, and no fetch follows a failed token exchange.
C6_ErrorDeTransporte ==
    /\ red.token_n <= 1
    /\ red.fetch_n <= 1
    /\ red.token_r \in ErroresDeTransporte =>
        (pc = "exited" /\ out # <<>> /\ red.fetch_n = 0 /\ conexion = ConexionCerrada)
    /\ (red.fetch_r \in ErroresDeTransporte /\ pc # "respuesta") =>
        (pc = "exited" /\ out # <<>> /\ conexion = ConexionCerrada)

\* C7: the ingestion job invoked with a wrong argument count attempts no
\* token exchange, no state fetch and no store access.
C7_ArgumentosIngestion ==
    argc # 2 => (red.token_n = 0 /\ red.fetch_n = 0 /\ conexion.connects = 0)

\* The distance job invoked with a wrong argument count exits with the usage
\* line and never opens the store (the half of C7 about the distance job).
C7_ArgumentosDistancia ==
    (argc # 2 /\ pc \notin {"idle", "c_argumento"}) =>
        (pc = "exited" /\ Len(out) = 1 /\ conexion = ConexionCerrada)

\* C8: the distance pass never ends in a math domain error, and a row whose
\* start and end coordinates are identical gets the distance 0.00.
C8_DistanciaDegenerada ==
    /\ excepcion # "ValueError"
    /\ \A i \in 1..Len(lista_por_avion) :
        (/\ i < idx
         /\ lista_por_avion[i].lat_inicio = lista_por_avion[i].lat_fin
         /\ lista_por_avion[i].lon_inicio = lista_por_avion[i].lon_fin)
        => tvTx[i].distancia_inicio_a_fin_km = <<0>>

\* C9: a run opens at most one connection, and when the process has ended
\* (success, no-op or failure) the connection it opened has been closed.
C9_ConexionLiberada ==
    /\ conexion.connects <= 1
    /\ pc \in Terminal => (~conexion.abierta /\ conexion.closes = conexion.connects)

SinDistancia(t) == {i \in 1..Len(t) : t[i].distancia_inicio_a_fin_km = <<>>}

Coordenadas(fila) ==
    <<fila.Avion_fisico_id, fila.lat_inicio, fila.lon_inicio, fila.lat_fin, fila.lon_fin>>

\* C10: the distance pass commits once, after the last row: the committed
\* table changes only at that commit; a completed pass leaves every row with
\* a non-null distance and its id and four coordinates unchanged; the step at
\* which a pass fails changes nothing committed and a pass that has committed
\* can only close; a pass over an empty table writes nothing and does not raise.
C10_PasadaDeDistancias ==
    /\ [][tv' # tv => (CompletaPasada /\ idx > Len(lista_por_avion))]_vars
    /\ [][CompletaPasada =>
            /\ SinDistancia(tv') = {}
            /\ Len(tv') = Len(tv)
            /\ \A i \in 1..Len(tv) : Coordenadas(tv'[i]) = Coordenadas(tv[i])]_vars
    /\ [][pc' = "crashed" => (tv' = tv /\ pc # "c_cerrar")]_vars
    /\ [][pc = "c_cerrar" => pc' = "done"]_vars
    /\ []((tv = <<>> /\ conexion.connects > 0 /\ pc # "c_select") =>
            (/\ pc \in {"c_cerrar", "done"}
             /\ conexion.escrituras = 0
             /\ excepcion = Ninguna
             /\ tvTx = tv))

\* C10 witness: a pass failed on a row with a null coordinate after it had
\* updated an earlier row, and the committed distance of that row is still null.
C10_Witness ==
    /\ pc = "crashed"
    /\ excepcion = "TypeError"
    /\ idx = 2
    /\ tvTx[1].distancia_inicio_a_fin_km # <<>>
    /\ tv[1].distancia_inicio_a_fin_km = <<>>

====
